---- MODULE Spec2Model ----
(***************************************************************************)
(* A model of gemini-video-playground: the batch analysis pipeline        *)
(* (create_analysis_batch and process_batch_tasks of                       *)
(* utils/batch_manager.py over the analysis_batches and analysis_tasks     *)
(* tables), the result scoring of utils/results_manager.py, the CSV        *)
(* imports and upload forms of utils/videos.py and utils/dreemz_csv.py,    *)
(* the embedding pass and the search of utils/semantic_search.py, and the  *)
(* session state of utils/auth_manager.py and utils/supabase_client.py.    *)
(***************************************************************************)
EXTENDS Integers, Sequences, FiniteSets, TLC

\* ------------------------------------------------------------------ bounds
MaxBatches == 2
MaxVideos == 2
MaxPrompts == 2
MaxFaults == 2
MaxFields == 2
MaxReads == 2
MaxRows == 2
MaxPolls == 3
MaxEmbedCalls == 2
MaxExtra == 1
MaxVisits == 2

\* ------------------------------------------------------------ value domains
Null == "null"
NoneId == 0
BatchSize == 96
MinInitial == 10
Stamp == "utcnow"
UserId == "user"
Models == {"gemini-model"}
NoError == Null
InvokeErrors == {"get_file", "generate_content", "response_text"}
WriteErrors == {"update_task", "update_batch"}
Runners == {1, 2}
SingleRunner == {1}

\* ------------------------------------------------------------ JSON values
\* A JSON value is [t, n, f]: t its type, n its number (an int as itself, a
\* float in eighths, a bool as 0 or 1), f its members (of a mapping).
JInt(k) == [t |-> "int", n |-> k, f |-> <<>>]
JFloat8(k) == [t |-> "float", n |-> k, f |-> <<>>]
JTrue == [t |-> "bool", n |-> 1, f |-> <<>>]
JStr == [t |-> "str", n |-> 0, f |-> <<>>]
JNull == [t |-> "null", n |-> 0, f |-> <<>>]
JList == [t |-> "list", n |-> 0, f |-> <<>>]
JNaN == [t |-> "nan", n |-> 0, f |-> <<>>]
JMap(members) == [t |-> "map", n |-> 0, f |-> members]
\* text no JSON parser accepts
Garbage == [t |-> "garbage", n |-> 0, f |-> <<>>]

\* member names the scoring looks at, letter by letter
K_level == <<"l", "e", "v", "e", "l">>
K_Rating == <<"R", "a", "t", "i", "n", "g">>
K_risk_score == <<"r", "i", "s", "k", "_", "s", "c", "o", "r", "e">>
K_note == <<"n", "o", "t", "e">>
InnerKeys == {K_level, K_Rating, K_risk_score, K_note}
TopKeys == {"a", "overall_score"}

DeepMap == JMap([k \in {K_level} |-> JInt(4)])
InnerValues ==
    {JInt(0), JInt(-1), JInt(4), JFloat8(1), JFloat8(3), JTrue, JStr, DeepMap}

Slots == TopKeys \X InnerKeys
FieldSets(max) == {S \in SUBSET Slots : Cardinality(S) <= max}

\* the object with the members g at the slots S; a top-level key without
\* members is absent, a number or an empty mapping, as shape says
MkDoc(S, g, shape) ==
    LET has(k) == \E s \in S : s[1] = k
        present == {k \in TopKeys : has(k) \/ shape[k] # "absent"}
    IN JMap([k \in present |->
              IF has(k) \/ shape[k] = "map"
              THEN JMap([ik \in {i \in InnerKeys : <<k, i>> \in S} |-> g[<<k, ik>>]])
              ELSE JInt(4)])

Shapes == [TopKeys -> {"absent", "scalar", "map"}]

\* what the model's answer can hold in place of an object
NonObjects == {JList, JInt(4), JStr, JNull, JNaN, Garbage}

\* an answer is a sequence of pieces: the opening fence ```json\n, the
\* closing fence \n```, or other text
FenceOpen == [s |-> "open", body |-> Garbage]
FenceClose == [s |-> "close", body |-> Garbage]
Chunk(body) == [s |-> "chunk", body |-> body]

\* the answers that hold body: bare, fenced, fenced inside prose, and with a
\* fence that is never closed
Wrappings == {"bare", "fenced", "prose", "unclosed"}
Wrap(w, body) ==
    CASE w = "bare" -> <<Chunk(body)>>
      [] w = "fenced" -> <<FenceOpen, Chunk(body), FenceClose>>
      [] w = "prose" ->
            <<Chunk(Garbage), FenceOpen, Chunk(body), FenceClose, Chunk(Garbage)>>
      [] w = "unclosed" -> <<FenceOpen, Chunk(body)>>

\* the task result column: None, or {"analysis": text}
NullResult == <<>>
Analysis(text) == <<text>>

ExampleObject ==
    JMap([k \in {"a"} |-> JMap([ik \in {K_level} |-> JInt(4)])])
Responses == {<<FenceOpen, Chunk(ExampleObject), FenceClose>>}
NoText == <<>>

VARIABLES
    batches,        \* table analysis_batches: row id = index
    tasks,          \* table analysis_tasks: row id = index
    run,            \* per session: the position of its process_batch_tasks call
    last_batch_id,  \* st.session_state.last_batch_id
    call,           \* the step taken last: operation, inputs, outcome
    faults,         \* exceptions raised so far by the backend and the model API
    view,           \* per task: what the results page computed for it last
    reads,          \* how often the results page was rendered
    videos,         \* table videos: row id = index
    log,            \* the calls an import made, in order: <<row, call>>
    imp,            \* the CSV import of this session and its position
    up,             \* the upload form of this session and its position
    emb,            \* the embedding pass of this session and its position
    search,         \* the search form of this session and its position
    app             \* st.session_state of a browser session, and what its last script run did

vars == <<batches, tasks, run, last_batch_id, call, faults, view, reads,
          videos, log, imp, up, emb, search,
          app>>

\* ------------------------------------------------------------ rows
BatchRow(model_name, total_videos) ==
    [model_name |-> model_name, status |-> "pending", progress |-> 0,
     total_videos |-> total_videos, created_by |-> UserId, completed_at |-> Null]

\* a row that carries the id of the first batch instead of the new one
TaskRowOfFirstBatch(batch_id, video_id, prompt_id) ==
    [batch_id |-> 1, video_id |-> video_id, prompt_id |-> prompt_id,
     status |-> "pending", created_by |-> UserId,
     result |-> NullResult, error |-> Null, completed_at |-> Null]

TaskRow(batch_id, video_id, prompt_id) ==
    [batch_id |-> batch_id, video_id |-> video_id, prompt_id |-> prompt_id,
     status |-> "pending", created_by |-> UserId,
     result |-> NullResult, error |-> Null, completed_at |-> Null]

\* a broken inner loop: only the first prompt of each video gets a row
RECURSIVE InsertTasksFirstPromptOnly(_, _, _, _, _, _)
InsertTasksFirstPromptOnly(v, p, batch_id, nv, np, failed) ==
    IF v > nv THEN <<>>
    ELSE IF p > 1 THEN InsertTasksFirstPromptOnly(v + 1, 1, batch_id, nv, np, failed)
    ELSE (IF <<v, p>> \in failed THEN <<>> ELSE <<TaskRow(batch_id, v, p)>>)
         \o InsertTasksFirstPromptOnly(v, p + 1, batch_id, nv, np, failed)

\* a loop that gives up at the first insert that raises
RECURSIVE InsertTasksStopAtFailure(_, _, _, _, _, _)
InsertTasksStopAtFailure(v, p, batch_id, nv, np, failed) ==
    IF v > nv THEN <<>>
    ELSE IF p > np THEN InsertTasksStopAtFailure(v + 1, 1, batch_id, nv, np, failed)
    ELSE IF <<v, p>> \in failed THEN <<>>
    ELSE <<TaskRow(batch_id, v, p)>>
         \o InsertTasksStopAtFailure(v, p + 1, batch_id, nv, np, failed)

\* for video in videos: for prompt in prompts: insert a row; a pair whose
\* insert raises is skipped and the loop goes on
RECURSIVE InsertTasks(_, _, _, _, _, _)
InsertTasks(v, p, batch_id, nv, np, failed) ==
    IF v > nv THEN <<>>
    ELSE IF p > np THEN InsertTasks(v + 1, 1, batch_id, nv, np, failed)
    ELSE (IF <<v, p>> \in failed THEN <<>> ELSE <<TaskRow(batch_id, v, p)>>)
         \o InsertTasks(v, p + 1, batch_id, nv, np, failed)

Pairs(nv, np) == (1..nv) \X (1..np)

IdleRun ==
    [pc |-> "idle", batch_id |-> NoneId, queue |-> <<>>, index |-> 0,
     total_tasks |-> 0, tasks_completed |-> 0, result |-> NoText, err |-> Null,
     trace |-> <<>>, raised |-> <<>>, ended |-> Null]

NoCall ==
    [op |-> "init", r |-> 0, batch |-> NoneId, task |-> NoneId, k |-> 0, n |-> 0,
     ok |-> TRUE, nv |-> 0, np |-> 0, failed |-> {}, ret |-> NoneId,
     pre_batches |-> 0, pre_tasks |-> 0]

\* generate_embeddings_for_all was not called
NoPass ==
    [pc |-> "none", rows |-> <<>>, before |-> <<>>, results |-> <<>>, i |-> 0,
     batch |-> <<>>, j |-> 0, calls |-> <<>>, sent |-> <<>>, ret |-> FALSE]

\* no upload form was submitted
NoUpload ==
    [pc |-> "none", form |-> Null, url |-> Null, metadata |-> Null,
     fields |-> <<"", "">>, is_red |-> FALSE, thumb_data |-> FALSE, polls |-> 0,
     ret |-> NoneId]

\* a key that st.session_state does not hold
Absent == "absent"

\* a browser session before its first script run: session_state is empty
NoApp ==
    [pc |-> "start", authenticated |-> Absent, user |-> Absent,
     session |-> Absent, op |-> "none", backend |-> <<>>]

\* the search page was not opened
NoSearch ==
    [pc |-> "none", rows |-> <<>>, video_data |-> <<>>, n |-> 0, k |-> 0,
     labels |-> <<>>, candidates |-> <<>>, shown |-> <<>>]

\* no CSV was handed to an import
NoImport ==
    [pc |-> "none", path |-> Null, columns |-> {}, rows |-> <<>>,
     is_red |-> FALSE, i |-> 0]

Init ==
    /\ batches = <<>>
    /\ tasks = <<>>
    /\ run = [r \in Runners |-> IdleRun]
    /\ last_batch_id = NoneId
    /\ call = NoCall
    /\ app = NoApp
    /\ search = NoSearch
    /\ faults = 0
    /\ view = <<>>
    /\ reads = 0
    /\ videos = <<>>
    /\ log = <<>>
    /\ imp = NoImport
    /\ up = NoUpload
    /\ emb = NoPass

\* ------------------------------------------------------------ create_analysis_batch
create_analysis_batch(r, nv, np, model_name, batch_ok, failed) ==
    /\ run[r].pc = "idle"
    /\ Len(batches) < MaxBatches
    /\ faults + Cardinality(failed) + (IF batch_ok THEN 0 ELSE 1) <= MaxFaults
    /\ batch_ok \/ failed = {}
    /\ LET batch_id == Len(batches) + 1
       IN IF batch_ok
          THEN /\ batches' = Append(batches, BatchRow(model_name, nv))
               /\ tasks' = tasks \o InsertTasks(1, 1, batch_id, nv, np, failed)
               /\ last_batch_id' = batch_id
               /\ call' = [NoCall EXCEPT !.op = "create", !.r = r, !.batch = batch_id,
                             !.nv = nv, !.np = np, !.failed = failed, !.ret = batch_id,
                             !.pre_batches = Len(batches), !.pre_tasks = Len(tasks)]
          ELSE /\ UNCHANGED <<batches, tasks, last_batch_id>>
               /\ call' = [NoCall EXCEPT !.op = "create", !.r = r, !.ok = FALSE,
                             !.nv = nv, !.np = np, !.ret = NoneId,
                             !.pre_batches = Len(batches), !.pre_tasks = Len(tasks)]
    /\ faults' = faults + Cardinality(failed) + (IF batch_ok THEN 0 ELSE 1)
    /\ UNCHANGED <<run, view, reads, videos, log, imp, up, emb, search, app>>

\* ------------------------------------------------------------ process_batch_tasks
\* the query without its status filter: every task of the batch
RECURSIVE PendingFromAnyStatus(_, _, _)
PendingFromAnyStatus(rows, i, batch_id) ==
    IF i > Len(rows) THEN <<>>
    ELSE IF rows[i].batch_id = batch_id
         THEN <<i>> \o PendingFromAnyStatus(rows, i + 1, batch_id)
         ELSE PendingFromAnyStatus(rows, i + 1, batch_id)

\* .eq("batch_id", batch_id).eq("status", "pending"), in row order
RECURSIVE PendingFrom(_, _, _)
PendingFrom(rows, i, batch_id) ==
    IF i > Len(rows) THEN <<>>
    ELSE IF rows[i].batch_id = batch_id /\ rows[i].status = "pending"
         THEN <<i>> \o PendingFrom(rows, i + 1, batch_id)
         ELSE PendingFrom(rows, i + 1, batch_id)

PendingTasks(batch_id) == PendingFrom(tasks, 1, batch_id)

\* the comparison off by one: completed one task early
BatchStatusOffByOne(tasks_completed, total_tasks) ==
    IF tasks_completed < total_tasks - 1 THEN "processing" ELSE "completed"

\* "processing" if tasks_completed < total_tasks else "completed"
BatchStatus(tasks_completed, total_tasks) ==
    IF tasks_completed < total_tasks THEN "processing" ELSE "completed"

\* a timestamp on every write
BatchCompletedAtEveryWrite(tasks_completed, total_tasks) == Stamp

\* datetime.utcnow().isoformat() if tasks_completed == total_tasks else None
BatchCompletedAt(tasks_completed, total_tasks) ==
    IF tasks_completed = total_tasks THEN Stamp ELSE Null

\* the for loop moves to the next task, or ends after the last one
Continue(rn) ==
    IF rn.index < rn.total_tasks
    THEN [rn EXCEPT !.pc = "invoke", !.index = rn.index + 1, !.result = NoText, !.err = Null]
    ELSE [rn EXCEPT !.pc = "idle", !.result = NoText, !.err = Null, !.ended = "finished"]

\* break in place of continue: the pass ends at the first failed task
AfterFailureBreak(rn) ==
    [rn EXCEPT !.pc = "idle", !.result = NoText, !.err = Null, !.ended = "finished"]

\* line 278: continue
AfterFailure(rn) == Continue(rn)

\* an outer except that swallows the error and lets the loop go on
AbortAndGoOn(rn) == Continue(rn)

\* the outer except: the error left the loop
Abort(rn) == [rn EXCEPT !.pc = "idle", !.result = NoText, !.ended = "aborted"]

StepCall(op, r, ok) ==
    [NoCall EXCEPT !.op = op, !.r = r, !.ok = ok, !.batch = run[r].batch_id,
        !.task = IF run[r].index > 0 THEN run[r].queue[run[r].index] ELSE NoneId,
        !.k = run[r].index, !.n = run[r].total_tasks]

\* lines 193-220: read the batch, read its pending tasks
process_batch_tasks(r, batch_id) ==
    /\ run[r].pc = "idle"
    /\ UNCHANGED <<batches, tasks, last_batch_id, faults, view, reads, videos, log, imp, up, emb, search, app>>
    /\ IF batch_id \notin DOMAIN batches
       \* .single() on no row: the client returns no data, or raises
       THEN /\ run' = [run EXCEPT ![r] = IdleRun]
            /\ \E op \in {"batch_not_found", "api_error"} :
                  call' = [NoCall EXCEPT !.op = op, !.r = r, !.batch = batch_id]
       ELSE LET queue == PendingTasks(batch_id)
            IN IF queue = <<>>
               THEN /\ run' = [run EXCEPT ![r] = IdleRun]
                    /\ call' = [NoCall EXCEPT !.op = "no_pending_tasks", !.r = r,
                                  !.batch = batch_id]
               ELSE /\ run' = [run EXCEPT ![r] =
                                 [IdleRun EXCEPT !.pc = "invoke", !.batch_id = batch_id,
                                     !.queue = queue, !.index = 1,
                                     !.total_tasks = Len(queue)]]
                    /\ call' = [NoCall EXCEPT !.op = "start", !.r = r, !.batch = batch_id,
                                  !.n = Len(queue)]

\* lines 242-252: get_file, generate_content, response.text; raised is the
\* exception one of them raised, or NoError and text the model's answer
AnalyzeVideo(r, raised, text) ==
    /\ run[r].pc = "invoke"
    /\ raised # NoError => faults < MaxFaults
    /\ faults' = IF raised # NoError THEN faults + 1 ELSE faults
    /\ run' = [run EXCEPT ![r] =
                 IF raised # NoError
                 THEN [@ EXCEPT !.pc = "mark_failed", !.err = raised,
                          !.trace = Append(@, run[r].queue[run[r].index]),
                          !.raised = Append(@, <<run[r].index, raised>>)]
                 ELSE [@ EXCEPT !.pc = "update_task", !.result = text,
                          !.trace = Append(@, run[r].queue[run[r].index])]]
    /\ call' = StepCall("invoke", r, raised = NoError)
    /\ UNCHANGED <<batches, tasks, last_batch_id, view, reads, videos, log, imp, up, emb, search, app>>

\* lines 254-261: the task is written completed
UpdateTaskCompleted(r, ok) ==
    /\ run[r].pc = "update_task"
    /\ ~ok => faults < MaxFaults
    /\ faults' = IF ok THEN faults ELSE faults + 1
    /\ LET t == run[r].queue[run[r].index]
       IN IF ok
          THEN /\ tasks' = [tasks EXCEPT ![t].status = "completed",
                                         ![t].result = Analysis(run[r].result),
                                         ![t].completed_at = Stamp]
               /\ run' = [run EXCEPT ![r].pc = "update_batch",
                                     ![r].tasks_completed = @ + 1]
          ELSE /\ tasks' = tasks
               /\ run' = [run EXCEPT ![r].pc = "mark_failed", ![r].err = "update_task"]
    /\ call' = StepCall("update_task", r, ok)
    /\ UNCHANGED <<batches, last_batch_id, view, reads, videos, log, imp, up, emb, search, app>>

\* an update that also sets total_videos to the number of tasks of the pass
WriteProgressAndTotal(row, done, total) ==
    [row EXCEPT !.progress = done,
                !.status = BatchStatus(done, total),
                !.completed_at = BatchCompletedAt(done, total),
                !.total_videos = total]

\* a compare-and-swap: the row is written only when it moves progress on
WriteProgressIfAhead(row, done, total) ==
    IF done > row.progress
    THEN [row EXCEPT !.progress = done,
                     !.status = BatchStatus(done, total),
                     !.completed_at = BatchCompletedAt(done, total)]
    ELSE row

\* the columns the update at lines 264-268 sets
WriteProgress(row, done, total) ==
    [row EXCEPT !.progress = done,
                !.status = BatchStatus(done, total),
                !.completed_at = BatchCompletedAt(done, total)]

\* lines 263-268: the batch's progress and status are written
UpdateBatchProgress(r, ok) ==
    /\ run[r].pc = "update_batch"
    /\ ~ok => faults < MaxFaults
    /\ faults' = IF ok THEN faults ELSE faults + 1
    /\ LET b == run[r].batch_id
           done == run[r].tasks_completed
           total == run[r].total_tasks
       IN IF ok
          THEN /\ batches' = [batches EXCEPT ![b] = WriteProgress(@, done, total)]
               /\ run' = [run EXCEPT ![r] = Continue(@)]
          ELSE /\ batches' = batches
               /\ run' = [run EXCEPT ![r].pc = "mark_failed", ![r].err = "update_batch"]
    /\ call' = StepCall("update_batch", r, ok)
    /\ UNCHANGED <<tasks, last_batch_id, view, reads, videos, log, imp, up, emb, search, app>>

\* lines 270-278: the per-task except writes the task failed and continues
MarkTaskFailed(r, ok) ==
    /\ run[r].pc = "mark_failed"
    /\ ~ok => faults < MaxFaults
    /\ faults' = IF ok THEN faults ELSE faults + 1
    /\ LET t == run[r].queue[run[r].index]
       IN IF ok
          THEN /\ tasks' = [tasks EXCEPT ![t].status = "failed",
                                         ![t].error = run[r].err,
                                         ![t].completed_at = Stamp]
               /\ run' = [run EXCEPT ![r] = AfterFailure(@)]
          ELSE /\ tasks' = tasks
               /\ run' = [run EXCEPT ![r] = Abort(@)]
    /\ call' = StepCall("mark_failed", r, ok)
    /\ UNCHANGED <<batches, last_batch_id, view, reads, videos, log, imp, up, emb, search, app>>

\* ------------------------------------------------------------ result scoring
\* str.lower(), on the capitals the keys use
Lower(c) ==
    CASE c = "R" -> "r" [] c = "L" -> "l" [] c = "S" -> "s" [] OTHER -> c

LowerKey(k) == [i \in DOMAIN k |-> Lower(k[i])]

EndsWith(k, suffix) ==
    /\ Len(k) >= Len(suffix)
    /\ SubSeq(k, Len(k) - Len(suffix) + 1, Len(k)) = suffix

ScoreSuffixes ==
    {<<"l", "e", "v", "e", "l">>, <<"r", "a", "t", "i", "n", "g">>,
     <<"s", "c", "o", "r", "e">>}

\* k.lower().endswith(('level', 'rating', 'score'))
IsScoreKey(k) == \E suffix \in ScoreSuffixes : EndsWith(LowerKey(k), suffix)

\* isinstance(v, (int, float)): a bool is an int, NaN is a float
IsIntOrFloat(v) == v.t \in {"int", "float", "bool", "nan"}

\* lines 29-35: the members collected, each named by its place
ScoreComponents(parsed) ==
    {s \in Slots :
        /\ s[1] \in DOMAIN parsed.f
        /\ parsed.f[s[1]].t = "map"
        /\ s[2] \in DOMAIN parsed.f[s[1]].f
        /\ IsScoreKey(s[2])
        /\ IsIntOrFloat(parsed.f[s[1]].f[s[2]])}

Member(parsed, s) == parsed.f[s[1]].f[s[2]]

\* a number in eighths
Eighths(v) == IF v.t = "float" THEN v.n ELSE 8 * v.n

\* zero counts as a score
ValidScoresWithZero(parsed) ==
    {s \in ScoreComponents(parsed) :
        Member(parsed, s).t # "nan" /\ Eighths(Member(parsed, s)) >= 0}

\* line 38: [s for s in score_components if s > 0]; NaN > 0 is False
ValidScores(parsed) ==
    {s \in ScoreComponents(parsed) :
        Member(parsed, s).t # "nan" /\ Eighths(Member(parsed, s)) > 0}

RECURSIVE SumEighths(_, _)
SumEighths(parsed, S) ==
    IF S = {} THEN 0
    ELSE LET s == CHOOSE x \in S : TRUE
         IN Eighths(Member(parsed, s)) + SumEighths(parsed, S \ {s})

\* round(num / den) of Python 3: to the nearest integer, a tie to the even one
PyRound(num, den) ==
    LET q == num \div den
        r == num % den
    IN IF 2 * r < den THEN q
       ELSE IF 2 * r > den THEN q + 1
       ELSE IF q % 2 = 0 THEN q ELSE q + 1

\* line 39: round((sum(valid_scores) / len(valid_scores)) * 100) if valid_scores else 0
OverallScore(parsed) ==
    LET valid == ValidScores(parsed)
    IN IF valid = {} THEN 0
       ELSE PyRound(100 * SumEighths(parsed, valid), 8 * Cardinality(valid))

\* re.search(r'```json\n(.*?)\n```', raw_json, re.DOTALL): the leftmost opening
\* fence that a closing fence follows, up to the first closing fence after it
clean_json_string(raw_json) ==
    LET opens == {i \in DOMAIN raw_json :
                    /\ raw_json[i].s = "open"
                    /\ \E j \in DOMAIN raw_json : j > i /\ raw_json[j].s = "close"}
    IN IF opens = {} THEN raw_json
       ELSE LET i == CHOOSE x \in opens : \A y \in opens : x <= y
                j == CHOOSE x \in DOMAIN raw_json :
                        /\ x > i /\ raw_json[x].s = "close"
                        /\ \A y \in DOMAIN raw_json :
                              (y > i /\ raw_json[y].s = "close") => x <= y
            IN SubSeq(raw_json, i + 1, j - 1)

\* json.loads accepts one JSON document and nothing else; like Python's, it
\* also accepts the literal NaN, which is not JSON
JsonDecodes(text) ==
    /\ Len(text) = 1
    /\ text[1].s = "chunk"
    /\ text[1].body.t # "garbage"

JsonLoads(text) == text[1].body

Returned(kind, doc) == [kind |-> kind, doc |-> doc]
NotViewed == Returned("not_viewed", Garbage)
EmptyDict == Returned("empty", Garbage)
ErrorMarker == Returned("error_marker", Garbage)
\* parsed.items() on a list, number, string or None: AttributeError, which
\* the except json.JSONDecodeError clause does not catch
RaisedAttributeError == Returned("raised_AttributeError", Garbage)

WithOverallScore(parsed) ==
    JMap([k \in DOMAIN parsed.f \cup {"overall_score"} |->
            IF k = "overall_score" THEN JInt(OverallScore(parsed)) ELSE parsed.f[k]])

parse_analysis_result(result) ==
    IF result = NullResult THEN EmptyDict
    ELSE LET clean_json == clean_json_string(result[1])
         IN IF ~JsonDecodes(clean_json) THEN ErrorMarker
            ELSE LET parsed == JsonLoads(clean_json)
                 IN IF parsed.t # "map" THEN RaisedAttributeError
                    ELSE Returned("dict", WithOverallScore(parsed))

\* the score written back into the stored result
ResultWithScorePersisted(result, parsed) ==
    IF parsed.kind = "dict" THEN Analysis(<<Chunk(parsed.doc)>>) ELSE result

\* the pages use the returned dict for display only: the column is not written
ResultAfterScoring(result, parsed) == result

\* lines 172-176: for task in tasks.data: if completed and has a result: parse
Scored(t) ==
    IF tasks[t].status = "completed" /\ tasks[t].result # NullResult
    THEN parse_analysis_result(tasks[t].result)
    ELSE NotViewed

show_batch_statistics(batch_id) ==
    /\ reads < MaxReads
    /\ batch_id \in DOMAIN batches
    /\ LET mine == {t \in DOMAIN tasks : tasks[t].batch_id = batch_id}
           \* an exception leaves the loop: the tasks after it are not reached
           reached == {t \in mine :
                         \A u \in mine : u < t => Scored(u) # RaisedAttributeError}
       IN /\ view' = [t \in DOMAIN tasks |->
                        IF t \in reached /\ Scored(t) # NotViewed
                        THEN Scored(t) ELSE view[t]]
          /\ tasks' = [t \in DOMAIN tasks |->
                        IF t \in reached /\ Scored(t) # NotViewed
                        THEN [tasks[t] EXCEPT
                                 !.result = ResultAfterScoring(@, Scored(t))]
                        ELSE tasks[t]]
    /\ reads' = reads + 1
    /\ call' = [NoCall EXCEPT !.op = "show_batch_statistics", !.batch = batch_id]
    /\ UNCHANGED <<batches, run, last_batch_id, faults, videos, log, imp, up, emb, search, app>>

\* a batch of one video and one prompt, processed: the model answered text
CompletedTask(text) ==
    [TaskRow(1, 1, 1) EXCEPT !.status = "completed", !.result = Analysis(text),
                             !.completed_at = Stamp]

InitScore ==
    /\ \/ \E S \in FieldSets(MaxFields) : \E g \in [S -> InnerValues] :
            \E shape \in Shapes, w \in {"bare", "fenced"} :
                tasks = <<CompletedTask(Wrap(w, MkDoc(S, g, shape)))>>
       \/ \E body \in NonObjects \cup {MkDoc({}, <<>>, shape) : shape \in Shapes} :
            \E w \in Wrappings : tasks = <<CompletedTask(Wrap(w, body))>>
       \/ tasks = <<CompletedTask(<<>>)>>
    /\ batches = <<[BatchRow("gemini-model", 1) EXCEPT !.status = "completed",
                                                      !.progress = 1,
                                                      !.completed_at = Stamp]>>
    /\ run = [r \in Runners |-> IdleRun]
    /\ last_batch_id = 1
    /\ call = NoCall
    /\ app = NoApp
    /\ search = NoSearch
    /\ faults = 0
    /\ view = <<NotViewed>>
    /\ reads = 0
    /\ videos = <<>>
    /\ log = <<>>
    /\ imp = NoImport
    /\ up = NoUpload
    /\ emb = NoPass

NextScore == \E batch_id \in DOMAIN batches : show_batch_statistics(batch_id)

SpecScore == InitScore /\ [][NextScore]_vars

\* ------------------------------------------------------------ one session
SessionStep(r) ==
    \/ \E nv \in 1..MaxVideos, np \in 1..MaxPrompts, m \in Models, batch_ok \in BOOLEAN :
         \E failed \in SUBSET Pairs(nv, np) :
             create_analysis_batch(r, nv, np, m, batch_ok, failed)
    \/ \E batch_id \in 1..MaxBatches : process_batch_tasks(r, batch_id)
    \/ \E raised \in {NoError} \cup InvokeErrors, text \in Responses :
         AnalyzeVideo(r, raised, text)
    \/ \E ok \in BOOLEAN : UpdateTaskCompleted(r, ok)
    \/ \E ok \in BOOLEAN : UpdateBatchProgress(r, ok)
    \/ \E ok \in BOOLEAN : MarkTaskFailed(r, ok)

Next == \E r \in SingleRunner : SessionStep(r)

Spec == Init /\ [][Next]_vars

\* ------------------------------------------------------------ two sessions
\* a batch just created, every insert having succeeded, and two sessions
\* (two browser tabs of its owner) that can each press Process
InitRace ==
    /\ \E nv \in 1..MaxVideos, np \in 1..MaxPrompts, m \in Models :
          /\ batches = <<BatchRow(m, nv)>>
          /\ tasks = InsertTasks(1, 1, 1, nv, np, {})
    /\ run = [r \in Runners |-> IdleRun]
    /\ last_batch_id = 1
    /\ call = NoCall
    /\ app = NoApp
    /\ search = NoSearch
    /\ faults = 0
    /\ view = <<>>
    /\ reads = 0
    /\ videos = <<>>
    /\ log = <<>>
    /\ imp = NoImport
    /\ up = NoUpload
    /\ emb = NoPass

\* the steps of process_batch_tasks in session r
RunnerStep(r) ==
    \/ \E batch_id \in 1..MaxBatches : process_batch_tasks(r, batch_id)
    \/ \E raised \in {NoError} \cup InvokeErrors, text \in Responses :
         AnalyzeVideo(r, raised, text)
    \/ \E ok \in BOOLEAN : UpdateTaskCompleted(r, ok)
    \/ \E ok \in BOOLEAN : UpdateBatchProgress(r, ok)
    \/ \E ok \in BOOLEAN : MarkTaskFailed(r, ok)

NextRace == \E r \in Runners : RunnerStep(r)

SpecRace == InitRace /\ [][NextRace]_vars

\* ------------------------------------------------------------ CSV import
\* the header of a CSV: a Dreemz export, a generic sheet, each with and
\* without its URL column
DreemzColumns == {"mediaSharePath", "title", "relateId", "score"}
GenericColumns == {"video_url", "title", "metadata"}
UrlColumns == {"mediaSharePath", "video_url"}
Headers ==
    {DreemzColumns, DreemzColumns \ UrlColumns,
     GenericColumns, GenericColumns \ UrlColumns}

\* a URL cell: one with scheme and host, one without
Urls == {"http://host/clip.mp4", "clip.mp4"}
MetadataCells == {"nan", "json", "not_json"}

\* the rows a header admits: a cell a column does not provide is Null
RowsOf(columns) ==
    [url : IF columns \cap UrlColumns # {} THEN Urls ELSE {Null},
     metadata : IF "metadata" \in columns THEN MetadataCells ELSE {Null}]

ImportPaths ==
    {"dreemz_tab", "generic_tab", "process_dreemz_csv", "process_csv_uploads"}

\* what the network and the services answer for one row
Outcomes ==
    [head : {"video/mp4", "text/html", "raise"}, get : BOOLEAN,
     thumb : BOOLEAN, gemini : BOOLEAN, thumb_up : BOOLEAN]

\* what processing did: the calls made, the video rows inserted, and whether
\* an exception left the loop over the rows
Effect(calls, inserted) == [calls |-> calls, inserted |-> inserted, raised |-> FALSE]
Raised == [calls |-> <<>>, inserted |-> <<>>, raised |-> TRUE]

\* urlparse(url): scheme and netloc both present
HasSchemeAndNetloc(url) == url = "http://host/clip.mp4"

\* the variant that asks the server before looking at the URL
is_valid_video_url_probe_first(url, head) ==
    [ret |-> HasSchemeAndNetloc(url) /\ head = "video/mp4",
     calls |-> <<"requests.head">>]

is_valid_video_url(url, head) ==
    IF ~HasSchemeAndNetloc(url)
    THEN [ret |-> FALSE, calls |-> <<>>]
    ELSE [ret |-> head = "video/mp4", calls |-> <<"requests.head">>]

download_video_from_url(url, get) ==
    [ret |-> get, calls |-> <<"requests.get">>]

VideoRow(gemini_file_id, metadata, thumbnail_path, source_url, is_red) ==
    [gemini_file_id |-> gemini_file_id, group_id |-> 1,
     thumbnail_path |-> thumbnail_path, source_url |-> source_url,
     metadata |-> metadata, created_by |-> UserId, is_red |-> is_red]

add_video(gemini_file_id, metadata, thumbnail_path, source_url, is_red) ==
    Effect(<<"video_groups.select", "videos.insert">>,
           <<VideoRow(gemini_file_id, metadata, thumbnail_path, source_url, is_red)>>)

ThumbnailPath(uploaded) == IF uploaded THEN "videos/thumbnails" ELSE Null

Then(e1, e2) == Effect(e1.calls \o e2.calls, e1.inserted \o e2.inserted)
Calls(calls) == Effect(calls, <<>>)

\* utils/videos.py: a red group gets no thumbnail, the video is stored anyway
process_video_upload(source_url, metadata, is_red, o, fid) ==
    LET thumb_data == ~is_red /\ o.thumb
        start == Calls(<<"video_groups.select">>
                       \o (IF is_red THEN <<>> ELSE <<"generate_thumbnail">>)
                       \o <<"upload_to_gemini">>)
    IN IF ~o.gemini THEN start
       ELSE Then(Then(start,
                      Calls(IF thumb_data THEN <<"upload_thumbnail">> ELSE <<>>)),
                 add_video(fid, metadata,
                           ThumbnailPath(thumb_data /\ o.thumb_up),
                           source_url, is_red))

\* utils/video_processor.py: always a thumbnail, stored only with one
video_processor_process_video_upload(source_url, metadata, is_red, o, fid) ==
    LET start == Calls(<<"generate_thumbnail", "upload_to_gemini">>)
    IN IF ~(o.gemini /\ o.thumb) THEN start
       ELSE Then(Then(start, Calls(<<"upload_thumbnail">>)),
                 add_video(fid, metadata, ThumbnailPath(o.thumb_up),
                           source_url, is_red))

\* the metadata a generic sheet gives a video: the title and, when the
\* metadata cell parses, its members
GenericMetadata(row) == IF row.metadata = "json" THEN "title+json" ELSE "title"

create_metadata_from_row(row, columns) ==
    IF "mediaSharePath" \in columns THEN "dreemz" ELSE GenericMetadata(row)

\* both tabs of the groups page: probe, download, upload
ProbeDownloadUpload(url, metadata, is_red, o, fid) ==
    LET valid == is_valid_video_url(url, o.head)
        data == download_video_from_url(url, o.get)
    IN IF ~valid.ret THEN Calls(valid.calls)
       ELSE IF ~data.ret THEN Calls(valid.calls \o data.calls)
       ELSE Then(Calls(valid.calls \o data.calls),
                 process_video_upload(url, metadata, is_red, o, fid))

DreemzTabRow(row, is_red, o, fid) ==
    ProbeDownloadUpload(row.url, "dreemz", is_red, o, fid)

GenericTabRow(row, is_red, o, fid) ==
    ProbeDownloadUpload(row.url, GenericMetadata(row), is_red, o, fid)

\* utils/dreemz_csv.py: row['mediaSharePath'] raises KeyError without the
\* column, and the except around the loop ends the import; no probe
process_dreemz_csv_row(row, columns, is_red, o, fid) ==
    IF "mediaSharePath" \notin columns THEN Raised
    ELSE IF ~o.get THEN Calls(<<"requests.get">>)
    ELSE Then(Calls(<<"requests.get">>),
              video_processor_process_video_upload(row.url, "dreemz", is_red, o, fid))

\* row.get('mediaSharePath') or row.get('video_url'): None without both
process_csv_uploads_row(row, columns, is_red, o, fid) ==
    LET video_url == IF columns \cap UrlColumns # {} THEN row.url ELSE Null
        valid == is_valid_video_url(video_url, o.head)
        data == download_video_from_url(video_url, o.get)
        fetched == Calls(valid.calls \o data.calls
                         \o <<"generate_thumbnail", "upload_to_gemini">>)
    IN IF ~valid.ret THEN Calls(valid.calls)
       ELSE IF ~data.ret THEN Calls(valid.calls \o data.calls)
       ELSE IF ~(o.gemini /\ o.thumb) THEN fetched
       ELSE Then(Then(fetched, Calls(<<"upload_thumbnail">>)),
                 add_video(fid, create_metadata_from_row(row, columns),
                           ThumbnailPath(o.thumb_up), video_url, is_red))

RowEffect(path, row, columns, is_red, o, fid) ==
    CASE path = "dreemz_tab" -> DreemzTabRow(row, is_red, o, fid)
      [] path = "generic_tab" -> GenericTabRow(row, is_red, o, fid)
      [] path = "process_dreemz_csv" ->
            process_dreemz_csv_row(row, columns, is_red, o, fid)
      [] path = "process_csv_uploads" ->
            process_csv_uploads_row(row, columns, is_red, o, fid)

\* the column a tab of the groups page insists on
RequiredColumn(path) ==
    IF path = "dreemz_tab" THEN "mediaSharePath" ELSE "video_url"

ChecksColumns(path) == path \in {"dreemz_tab", "generic_tab"}

\* the CSV is in: a tab checks the header and waits for its button, a
\* function starts on the rows at once
OpenImport ==
    /\ imp.pc = "loaded"
    /\ imp' = IF ChecksColumns(imp.path) /\ RequiredColumn(imp.path) \notin imp.columns
              THEN [imp EXCEPT !.pc = "rejected"]
              ELSE [imp EXCEPT !.pc = "rows", !.i = 1]
    /\ UNCHANGED <<batches, tasks, run, last_batch_id, call, faults, view, reads,
                   videos, log, up, emb, search, app>>

\* one turn of the loop over the rows
ImportRow(o) ==
    /\ imp.pc = "rows"
    /\ LET e == RowEffect(imp.path, imp.rows[imp.i], imp.columns, imp.is_red,
                          o, imp.i)
       IN /\ log' = log \o [k \in 1..Len(e.calls) |-> <<imp.i, e.calls[k]>>]
          /\ videos' = videos \o e.inserted
          /\ imp' = IF e.raised THEN [imp EXCEPT !.pc = "failed"]
                    ELSE IF imp.i = Len(imp.rows) THEN [imp EXCEPT !.pc = "done"]
                    ELSE [imp EXCEPT !.i = @ + 1]
    /\ UNCHANGED <<batches, tasks, run, last_batch_id, call, faults, view, reads, up, emb, search, app>>

\* a session with one group, no video yet, and a CSV handed to an import
InitIngest ==
    /\ batches = <<>>
    /\ tasks = <<>>
    /\ run = [r \in Runners |-> IdleRun]
    /\ last_batch_id = NoneId
    /\ call = NoCall
    /\ app = NoApp
    /\ search = NoSearch
    /\ faults = 0
    /\ view = <<>>
    /\ reads = 0
    /\ videos = <<>>
    /\ log = <<>>
    /\ up = NoUpload
    /\ emb = NoPass
    /\ \E path \in ImportPaths, columns \in Headers, is_red \in BOOLEAN,
          n \in 1..MaxRows :
          \E rows \in [1..n -> RowsOf(columns)] :
             imp = [pc |-> "loaded", path |-> path, columns |-> columns,
                    rows |-> rows, is_red |-> is_red, i |-> 0]

NextIngest ==
    \/ OpenImport
    \/ \E o \in Outcomes : ImportRow(o)

SpecIngest == InitIngest /\ [][NextIngest]_vars

\* ------------------------------------------------------------ upload forms
\* the two single-video tabs of the groups page: a file, or a URL
UploadForms == {"file", "url"}
\* the forms for a prompt, a group and an account
OtherForms == {"add_prompt", "edit_prompt", "add_group", "signup"}
\* a text field: left empty, or one of two texts
FieldTexts == {"", "abc", "xyz"}
\* the URL field: left empty, or a URL cell
FormUrls == {""} \cup Urls
\* the metadata field: left empty, JSON, or other text
MetadataFields == {"", "json", "not_json"}
\* what genai.get_file reports for the file; "raise" is a failed request
RemoteStates == {"PROCESSING", "ACTIVE", "FAILED", "raise"}
Ended == {"rejected", "invalid_url", "download_failed", "done", "raised"}

FormCalls(calls) == [k \in 1..Len(calls) |-> <<1, calls[k]>>]

\* process_video_upload up to its call of upload_to_gemini, after the calls
\* made before it: the group is read, and a thumbnail is made unless the
\* group is red
BeginUpload(before, o) ==
    /\ log' = log \o FormCalls(
                  before \o <<"video_groups.select">>
                  \o (IF up.is_red THEN <<>> ELSE <<"generate_thumbnail">>))
    /\ up' = [up EXCEPT !.pc = "upload_file",
                        !.thumb_data = ~up.is_red /\ o.thumb]

\* the groups page lists the groups (line 238) before it comes to its tabs
GroupsPage == <<"get_video_groups">>

\* the form is submitted: the metadata is parsed, a URL is probed and
\* downloaded, and process_video_upload starts
SubmitUpload(o) ==
    /\ up.pc = "form"
    /\ up.form \in UploadForms
    /\ IF up.form = "url" /\ up.url = ""
       THEN /\ up' = [up EXCEPT !.pc = "done"]
            /\ log' = log \o FormCalls(GroupsPage)
       ELSE IF up.metadata = "not_json"
       THEN /\ up' = [up EXCEPT !.pc = "rejected"]
            /\ log' = log \o FormCalls(GroupsPage)
       ELSE IF up.form = "file" THEN BeginUpload(GroupsPage, o)
       ELSE LET valid == is_valid_video_url(up.url, o.head)
                data == download_video_from_url(up.url, o.get)
            IN IF ~valid.ret
               THEN /\ up' = [up EXCEPT !.pc = "invalid_url"]
                    /\ log' = log \o FormCalls(GroupsPage \o valid.calls)
               ELSE IF ~data.ret
               THEN /\ up' = [up EXCEPT !.pc = "download_failed"]
                    /\ log' = log \o FormCalls(GroupsPage \o valid.calls \o data.calls)
               ELSE BeginUpload(GroupsPage \o valid.calls \o data.calls, o)
    /\ UNCHANGED <<batches, tasks, run, last_batch_id, call, faults, view, reads,
                   videos, imp, emb, search, app>>

\* not description or not prompt_text, with the title forgotten
PromptFieldsValidTextOnly(description, prompt_text) == prompt_text # ""

\* both fields of a prompt are required
PromptFieldsValid(description, prompt_text) == description # "" /\ prompt_text # ""

\* the forms that write a prompt, a group or an account; fields holds the
\* two texts typed in: title and text, name and description, password and
\* its confirmation
SubmitForm(ok) ==
    /\ up.pc = "form"
    /\ up.form \in OtherForms
    /\ LET f == up.fields
           valid == CASE up.form \in {"add_prompt", "edit_prompt"} ->
                            PromptFieldsValid(f[1], f[2])
                      [] up.form = "add_group" -> f[1] # ""
                      [] up.form = "signup" -> f[1] = f[2]
           \* what the page does when the fields are refused, and when not
           refused == CASE up.form = "add_prompt" -> <<"get_prompts">>
                        [] up.form = "edit_prompt" -> <<"get_prompts">>
                        [] up.form = "add_group" -> GroupsPage
                        [] up.form = "signup" -> <<>>
           accepted == CASE up.form = "add_prompt" ->
                               <<"prompts.insert">>
                         [] up.form = "edit_prompt" -> <<"get_prompts", "prompts.update">>
                         [] up.form = "add_group" -> <<"video_groups.insert">>
                         [] up.form = "signup" -> <<"auth.sign_up">>
       IN /\ log' = log \o FormCalls(IF valid THEN accepted ELSE refused)
          /\ up' = [up EXCEPT !.pc = IF ~valid THEN "rejected"
                                     ELSE IF ok THEN "done" ELSE "raised"]
    /\ UNCHANGED <<batches, tasks, run, last_batch_id, call, faults, view, reads,
                   videos, imp, emb, search, app>>

\* upload_to_gemini: genai.upload_file, which may raise
UploadFile(ok) ==
    /\ up.pc = "upload_file"
    /\ log' = log \o FormCalls(<<"upload_to_gemini">>)
    /\ up' = IF ok THEN [up EXCEPT !.pc = "poll"]
             ELSE [up EXCEPT !.pc = "uploaded", !.ret = NoneId]
    /\ UNCHANGED <<batches, tasks, run, last_batch_id, call, faults, view, reads,
                   videos, imp, emb, search, app>>

\* one turn of the while True loop: genai.get_file and the two tests
PollFile(state) ==
    /\ up.pc = "poll"
    /\ up' = CASE state = "ACTIVE" ->
                    [up EXCEPT !.pc = "uploaded", !.ret = 1,
                               !.polls = IF @ < MaxPolls THEN @ + 1 ELSE @]
               [] state \in {"FAILED", "raise"} ->
                    [up EXCEPT !.pc = "uploaded", !.ret = NoneId,
                               !.polls = IF @ < MaxPolls THEN @ + 1 ELSE @]
               [] state = "PROCESSING" ->
                    [up EXCEPT !.pc = "sleep",
                               !.polls = IF @ < MaxPolls THEN @ + 1 ELSE @]
    /\ UNCHANGED <<batches, tasks, run, last_batch_id, call, faults, view, reads,
                   videos, log, imp, emb, search, app>>

\* time.sleep(2), then the loop again
Sleep ==
    /\ up.pc = "sleep"
    /\ up' = [up EXCEPT !.pc = "poll"]
    /\ UNCHANGED <<batches, tasks, run, last_batch_id, call, faults, view, reads,
                   videos, log, imp, emb, search, app>>

\* process_video_upload after upload_to_gemini returned
FinishUpload(thumb_up) ==
    /\ up.pc = "uploaded"
    /\ LET e == IF up.ret = NoneId THEN Calls(<<>>)
                ELSE Then(Calls(IF up.thumb_data THEN <<"upload_thumbnail">> ELSE <<>>),
                          add_video(up.ret,
                                    IF up.metadata = "json" THEN "json" ELSE "empty",
                                    ThumbnailPath(up.thumb_data /\ thumb_up),
                                    IF up.form = "url" THEN up.url ELSE Null,
                                    up.is_red))
       IN /\ log' = log \o FormCalls(e.calls)
          /\ videos' = videos \o e.inserted
    /\ up' = [up EXCEPT !.pc = "done"]
    /\ UNCHANGED <<batches, tasks, run, last_batch_id, call, faults, view, reads, imp, emb, search, app>>

\* a session with one group, no video yet, and a filled upload form
InitUpload ==
    /\ batches = <<>>
    /\ tasks = <<>>
    /\ run = [r \in Runners |-> IdleRun]
    /\ last_batch_id = NoneId
    /\ call = NoCall
    /\ app = NoApp
    /\ search = NoSearch
    /\ faults = 0
    /\ view = <<>>
    /\ reads = 0
    /\ videos = <<>>
    /\ log = <<>>
    /\ imp = NoImport
    /\ emb = NoPass
    /\ \/ \E form \in UploadForms, metadata \in MetadataFields, is_red \in BOOLEAN :
            \E url \in IF form = "url" THEN FormUrls ELSE {Null} :
               up = [NoUpload EXCEPT !.pc = "form", !.form = form, !.url = url,
                                     !.metadata = metadata, !.is_red = is_red]
       \/ \E form \in OtherForms, fields \in FieldTexts \X FieldTexts :
            up = [NoUpload EXCEPT !.pc = "form", !.form = form, !.fields = fields]

NextUpload ==
    \/ \E o \in Outcomes : SubmitUpload(o)
    \/ \E ok \in BOOLEAN : SubmitForm(ok)
    \/ \E ok \in BOOLEAN : UploadFile(ok)
    \/ \E state \in RemoteStates : PollFile(state)
    \/ Sleep
    \/ \E thumb_up \in BOOLEAN : FinishUpload(thumb_up)

SpecUpload == InitUpload /\ [][NextUpload]_vars

\* the session keeps running: a step that can be taken is taken
SpecUploadLive == SpecUpload /\ WF_vars(NextUpload)

\* ------------------------------------------------------------ embeddings
\* the summary and summary_embedding columns of an analysis_tasks row
EmbRow(summary, summary_embedding) ==
    [summary |-> summary, summary_embedding |-> summary_embedding]
MissingRow == EmbRow("summary", Null)

\* how many rows lack an embedding: none, one, and around each multiple of
\* the batch size
MissingCounts ==
    {0, 1} \cup {k * BatchSize + d : k \in 1..(MaxEmbedCalls - 1), d \in {-1, 0, 1}}

\* rows the pass has to leave alone: without a summary, or embedded already
OtherRows ==
    {<<>>, <<EmbRow(Null, Null)>>, <<EmbRow("summary", "old")>>,
     <<EmbRow(Null, Null), EmbRow("summary", "old")>>}

\* .neq("summary", None).is_("summary_embedding", None): the ids, in row order
MissingEmbeddings(rows) ==
    LET ids == {id \in DOMAIN rows :
                  rows[id].summary # Null /\ rows[id].summary_embedding = Null}
    IN [k \in 1..Cardinality(ids) |->
          CHOOSE id \in ids : Cardinality({x \in ids : x < id}) = k - 1]

Min(a, b) == IF a < b THEN a ELSE b

\* a slice one short of the step: results.data[i:i + batch_size - 1]
BatchOneShort(results, i) ==
    SubSeq(results, i + 1, Min(i + BatchSize - 1, Len(results)))

\* results.data[i:i + batch_size]
Batch(results, i) == SubSeq(results, i + 1, Min(i + BatchSize, Len(results)))

\* lines 188-197: the query, and False when nothing is missing
generate_embeddings_for_all ==
    /\ emb.pc = "ready"
    /\ LET results == MissingEmbeddings(emb.rows)
       IN emb' = IF results = <<>>
                 THEN [emb EXCEPT !.pc = "returned", !.ret = FALSE]
                 ELSE [emb EXCEPT !.pc = "embed", !.results = results, !.i = 0]
    /\ UNCHANGED <<batches, tasks, run, last_batch_id, call, faults, view, reads,
                   videos, log, imp, up, search, app>>

\* lines 201-209: the next batch goes to co.embed, which may raise
Embed(ok) ==
    /\ emb.pc = "embed"
    /\ LET batch == Batch(emb.results, emb.i)
           ids == {batch[k] : k \in DOMAIN batch}
       IN emb' = [emb EXCEPT
                    !.pc = IF ok THEN "update" ELSE "raised",
                    !.batch = batch,
                    !.j = 1,
                    !.calls = Append(@, Len(batch)),
                    !.sent = [id \in DOMAIN @ |-> IF id \in ids THEN @[id] + 1 ELSE @[id]]]
    /\ UNCHANGED <<batches, tasks, run, last_batch_id, call, faults, view, reads,
                   videos, log, imp, up, search, app>>

\* lines 212-215: one record's embedding is written, which may raise; after
\* the last record of the batch the outer loop steps on, and ends with True
UpdateEmbedding(ok) ==
    /\ emb.pc = "update"
    /\ emb' =
         IF ~ok THEN [emb EXCEPT !.pc = "raised"]
         ELSE LET id == emb.batch[emb.j]
                  written == [emb EXCEPT !.rows[id].summary_embedding = "new"]
              IN IF emb.j < Len(emb.batch) THEN [written EXCEPT !.j = @ + 1]
                 ELSE IF emb.i + BatchSize < Len(emb.results)
                 THEN [written EXCEPT !.pc = "embed", !.i = @ + BatchSize]
                 ELSE [written EXCEPT !.pc = "returned", !.ret = TRUE]
    /\ UNCHANGED <<batches, tasks, run, last_batch_id, call, faults, view, reads,
                   videos, log, imp, up, search, app>>

\* the search page is opened over a table of tasks
InitEmbed ==
    /\ batches = <<>>
    /\ tasks = <<>>
    /\ run = [r \in Runners |-> IdleRun]
    /\ last_batch_id = NoneId
    /\ call = NoCall
    /\ app = NoApp
    /\ search = NoSearch
    /\ faults = 0
    /\ view = <<>>
    /\ reads = 0
    /\ videos = <<>>
    /\ log = <<>>
    /\ imp = NoImport
    /\ up = NoUpload
    /\ \E other \in OtherRows, m \in MissingCounts :
          LET rows == other \o [k \in 1..m |-> MissingRow]
          IN emb = [NoPass EXCEPT !.pc = "ready", !.rows = rows, !.before = rows,
                                  !.sent = [id \in DOMAIN rows |-> 0]]

NextEmbed ==
    \/ generate_embeddings_for_all
    \/ \E ok \in BOOLEAN : Embed(ok)
    \/ \E ok \in BOOLEAN : UpdateEmbedding(ok)

SpecEmbed == InitEmbed /\ [][NextEmbed]_vars

\* ------------------------------------------------------------ semantic search
\* the Initial Results slider: from 10 up (to 100 in the page)
InitialResults == MinInitial..(MinInitial + MaxExtra)

\* how many tasks have a summary and an embedding: none, few, and around
\* the number of results asked for
StoredCounts ==
    {0, 1, 2, MinInitial - 1, MinInitial, MinInitial + MaxExtra,
     MinInitial + MaxExtra + 1}

\* rows the search leaves out: no embedding, or an embedding and no summary
UnsearchedRows ==
    {<<>>, <<EmbRow("summary", Null)>>, <<EmbRow(Null, "old")>>}

\* lines 42-47 and 66-69, 119-123: the rows with an embedding and a
\* summary, in row order
VideoData(rows) ==
    LET ids == {id \in DOMAIN rows :
                  rows[id].summary_embedding # Null /\ rows[id].summary # Null}
    IN [k \in 1..Cardinality(ids) |->
          CHOOSE id \in ids : Cardinality({x \in ids : x < id}) = k - 1]

\* the order in which the index ranks its vectors for a query
Orders == {"asc", "desc"}
Ranking(count, order) ==
    [j \in 1..count |-> IF order = "asc" THEN j - 1 ELSE count - j]

\* index.search(query, k): the labels of the k nearest vectors; when the
\* index holds fewer than k vectors the row is padded with -1
FaissSearch(ntotal, k, order) ==
    [j \in 1..k |-> IF j <= ntotal THEN Ranking(ntotal, order)[j] ELSE -1]

\* list[i] of Python: a negative index counts from the end
PyItem(list, i) == IF i >= 0 THEN list[i + 1] ELSE list[Len(list) + i + 1]

\* lines 146-153: [video_data[i] for i in I[0]]
InitialResultsData(video_data, labels) ==
    [j \in DOMAIN labels |-> PyItem(video_data, labels[j])]

\* co.rerank(documents, top_n): the indexes of at most top_n documents
RerankResults(ndocs, top_n, order) ==
    SubSeq(Ranking(ndocs, order), 1, Min(top_n, ndocs))

\* lines 33-74: the page reads the tasks and shows the form, or says that
\* there is nothing to search
show_semantic_search ==
    /\ search.pc = "page"
    /\ LET video_data == VideoData(search.rows)
       IN search' = [search EXCEPT !.video_data = video_data,
                                   !.pc = IF video_data = <<>> THEN "no_videos"
                                          ELSE "form"]
    /\ UNCHANGED <<batches, tasks, run, last_batch_id, call, faults, view, reads,
                   videos, log, imp, up, emb, app>>

\* lines 77-153: the form is submitted with N initial and K final results;
\* the query is embedded (which may raise) and the index searched
SubmitSearch(n, k, order, ok) ==
    /\ search.pc = "form"
    /\ k \in 1..n
    /\ search' =
         IF ~ok THEN [search EXCEPT !.pc = "failed", !.n = n, !.k = k]
         ELSE LET labels == FaissSearch(Len(search.video_data), n, order)
              IN [search EXCEPT
                    !.pc = "rerank", !.n = n, !.k = k, !.labels = labels,
                    !.candidates = InitialResultsData(search.video_data, labels)]
    /\ UNCHANGED <<batches, tasks, run, last_batch_id, call, faults, view, reads,
                   videos, log, imp, up, emb, app>>

\* lines 155-174: the candidates are reranked (which may raise) and the
\* results shown
Rerank(order, ok) ==
    /\ search.pc = "rerank"
    /\ search' =
         IF ~ok THEN [search EXCEPT !.pc = "failed"]
         ELSE LET results == RerankResults(Len(search.candidates), search.k, order)
              IN [search EXCEPT
                    !.pc = "shown",
                    !.shown = [j \in DOMAIN results |->
                                 PyItem(search.candidates, results[j])]]
    /\ UNCHANGED <<batches, tasks, run, last_batch_id, call, faults, view, reads,
                   videos, log, imp, up, emb, app>>

\* the search page is opened over a table of tasks
InitSearch ==
    /\ batches = <<>>
    /\ tasks = <<>>
    /\ run = [r \in Runners |-> IdleRun]
    /\ last_batch_id = NoneId
    /\ call = NoCall
    /\ app = NoApp
    /\ faults = 0
    /\ view = <<>>
    /\ reads = 0
    /\ videos = <<>>
    /\ log = <<>>
    /\ imp = NoImport
    /\ up = NoUpload
    /\ emb = NoPass
    /\ \E other \in UnsearchedRows, m \in StoredCounts :
          search = [NoSearch EXCEPT
                      !.pc = "page",
                      !.rows = other \o [j \in 1..m |-> EmbRow("summary", "old")]]

NextSearch ==
    \/ show_semantic_search
    \/ \E n \in InitialResults, k \in 1..(MinInitial + MaxExtra), order \in Orders,
          ok \in BOOLEAN : SubmitSearch(n, k, order, ok)
    \/ \E order \in Orders, ok \in BOOLEAN : Rerank(order, ok)

SpecSearch == InitSearch /\ [][NextSearch]_vars

\* ------------------------------------------------------------ session state
Users == {"ann", "bob"}

\* the page functions that start with require_auth()
GuardedPages ==
    {"create_batch", "process_batch", "show_prompt_management",
     "show_batch_results", "show_semantic_search", "manage_video_groups"}

\* if 'authenticated' not in st.session_state: ... = False, and the same
\* for user with None
init_session_state(s) ==
    [s EXCEPT !.authenticated = IF @ = Absent THEN "False" ELSE @,
              !.user = IF @ = Absent THEN "None" ELSE @]

\* a guard that only looks whether the key is there
require_auth_key_only(s) == s.authenticated # Absent

\* the page goes on unless 'authenticated' is missing or falsy
require_auth(s) == s.authenticated # Absent /\ s.authenticated = "True"

\* a script run of main with no button pressed: the login page, or the
\* application page, which reads the backend
main ==
    /\ LET s == init_session_state(app)
       IN IF s.authenticated # "True"
          THEN app' = [s EXCEPT !.pc = "auth_page", !.op = "auth_page"]
          ELSE /\ Len(app.backend) < MaxVisits
               /\ app' = [s EXCEPT !.pc = "app", !.op = "main",
                                   !.backend = Append(@, "main")]
    /\ UNCHANGED <<batches, tasks, run, last_batch_id, call, faults, view, reads,
                   videos, log, imp, up, emb, search>>

\* the login form is submitted: sign_in_with_password returns the user and
\* a session, or raises
login_form(u, ok) ==
    /\ app.pc = "auth_page"
    /\ app' = IF ok
              THEN [app EXCEPT !.authenticated = "True", !.user = u, !.session = u,
                               !.pc = "rerun", !.op = "login"]
              ELSE [app EXCEPT !.op = "login_failed"]
    /\ UNCHANGED <<batches, tasks, run, last_batch_id, call, faults, view, reads,
                   videos, log, imp, up, emb, search>>

\* the Logout button: st.session_state.clear() and st.rerun()
Logout ==
    /\ app.pc = "app"
    /\ app' = [app EXCEPT !.authenticated = Absent, !.user = Absent,
                          !.session = Absent, !.pc = "rerun", !.op = "logout"]
    /\ UNCHANGED <<batches, tasks, run, last_batch_id, call, faults, view, reads,
                   videos, log, imp, up, emb, search>>

\* a guarded page function is run: require_auth() stops the script, or the
\* page reads the backend
GuardedPage(page) ==
    /\ IF require_auth(app)
       THEN /\ Len(app.backend) < MaxVisits
            /\ app' = [app EXCEPT !.op = "page", !.backend = Append(@, page)]
       ELSE app' = [app EXCEPT !.op = "stopped"]
    /\ UNCHANGED <<batches, tasks, run, last_batch_id, call, faults, view, reads,
                   videos, log, imp, up, emb, search>>

InitApp ==
    /\ batches = <<>>
    /\ tasks = <<>>
    /\ run = [r \in Runners |-> IdleRun]
    /\ last_batch_id = NoneId
    /\ call = NoCall
    /\ faults = 0
    /\ view = <<>>
    /\ reads = 0
    /\ videos = <<>>
    /\ log = <<>>
    /\ imp = NoImport
    /\ up = NoUpload
    /\ emb = NoPass
    /\ search = NoSearch
    /\ app = NoApp

NextApp ==
    \/ main
    \/ \E u \in Users, ok \in BOOLEAN : login_form(u, ok)
    \/ Logout
    \/ \E page \in GuardedPages : GuardedPage(page)

SpecApp == InitApp /\ [][NextApp]_vars

\* ============================================================ claims
TasksOf(batch_id) == {t \in DOMAIN tasks : tasks[t].batch_id = batch_id}

\* C1: a create_analysis_batch call in which no insert fails adds exactly one
\* batch row (pending, progress 0, total_videos = |V|) and exactly |V| x |P|
\* task rows, one pending row of the new batch per (video, prompt) pair, and
\* returns the new batch's id.
C1_CreateAllPairs ==
    (call.op = "create" /\ call.ok /\ call.failed = {}) =>
        LET b == call.ret
            new == (call.pre_tasks + 1)..Len(tasks)
        IN /\ b # NoneId
           /\ Len(batches) = call.pre_batches + 1
           /\ b = Len(batches)
           /\ batches[b].status = "pending"
           /\ batches[b].progress = 0
           /\ batches[b].total_videos = call.nv
           /\ Cardinality(new) = call.nv * call.np
           /\ TasksOf(b) = new
           /\ \A t \in new : tasks[t].status = "pending"
           /\ \A v \in 1..call.nv, p \in 1..call.np :
                Cardinality({t \in new : tasks[t].video_id = v /\ tasks[t].prompt_id = p}) = 1

C1_Witness ==
    /\ call.op = "create" /\ call.ok /\ call.failed = {}
    /\ call.nv = MaxVideos /\ call.np = MaxPrompts
    /\ call.pre_tasks > 0

\* C2: every change of a task's status is pending -> completed or
\* pending -> failed.
C2_StatusOnlyLeavesPending ==
    [][\A t \in DOMAIN tasks :
          tasks'[t].status # tasks[t].status =>
              /\ tasks[t].status = "pending"
              /\ tasks'[t].status \in {"completed", "failed"}]_vars

\* C3: once the k-th task of a pass over n tasks has been processed (written
\* completed or failed), the batch's progress is k and its status is
\* processing while k < n and completed when k = n.
C3_ProgressCountsProcessed ==
    (call.op \in {"update_batch", "mark_failed"} /\ call.ok) =>
        /\ batches[call.batch].progress = call.k
        /\ batches[call.batch].status =
              IF call.k < call.n THEN "processing" ELSE "completed"

\* C4: with a single runner, a batch whose status is completed has no
\* pending task.
C4_CompletedHasNoPending ==
    \A b \in DOMAIN batches :
        batches[b].status = "completed" =>
            \A t \in TasksOf(b) : tasks[t].status # "pending"

C4_Witness ==
    \E b \in DOMAIN batches :
        /\ batches[b].status = "completed"
        /\ Cardinality(TasksOf(b)) >= 2
        /\ \E t \in TasksOf(b) : tasks[t].status = "failed"

PassOver(r) == run[r].pc = "idle" /\ run[r].ended # Null

C5_PassState ==
    \A r \in SingleRunner :
        /\ \A i, j \in DOMAIN run[r].trace :
              i # j => run[r].trace[i] # run[r].trace[j]
        /\ (PassOver(r) /\ run[r].ended = "finished") =>
              /\ \A x \in DOMAIN run[r].raised :
                    LET t == run[r].queue[run[r].raised[x][1]]
                    IN tasks[t].status = "failed" /\ tasks[t].error = run[r].raised[x][2]
              /\ \A j \in DOMAIN run[r].queue :
                    tasks[run[r].queue[j]].status \in {"completed", "failed"}
        /\ (PassOver(r) /\ run[r].ended = "aborted") =>
              /\ \A j \in (run[r].index + 1)..Len(run[r].queue) :
                    tasks[run[r].queue[j]].status = "pending"
              /\ run[r].err \in InvokeErrors =>
                    tasks[run[r].queue[run[r].index]].status = "pending"

C5_NoRetry ==
    call'.op = "invoke" => tasks[call'.task].status = "pending"

Loaded(t) == JsonLoads(clean_json_string(tasks[t].result[1]))

ScoreOf(t) == view[t].doc.f["overall_score"]

StrictlyPositive(parsed) ==
    {s \in ScoreComponents(parsed) :
        Member(parsed, s).t # "nan" /\ Eighths(Member(parsed, s)) > 0}

\* doc without the member at slot s
Without(parsed, s) ==
    JMap([k \in DOMAIN parsed.f |->
            IF k = s[1]
            THEN JMap([ik \in DOMAIN parsed.f[k].f \ {s[2]} |-> parsed.f[k].f[ik]])
            ELSE parsed.f[k]])

\* C6: overall_score is the integer nearest to 100 x the mean of the strictly
\* positive collected values, 0 when there is none, never negative, and the
\* same with any one zero or negative collected value removed.
C6_ScoreIsRoundedPositiveMean ==
    \A t \in DOMAIN view :
        view[t].kind = "dict" =>
            LET parsed == Loaded(t)
                pos == StrictlyPositive(parsed)
                num == 100 * SumEighths(parsed, pos)
                den == 8 * Cardinality(pos)
                score == ScoreOf(t)
            IN /\ score.t = "int"
               /\ score.n >= 0
               /\ pos = {} => score.n = 0
               /\ pos # {} => /\ 2 * (den * score.n - num) <= den
                              /\ 2 * (num - den * score.n) <= den
               /\ \A s \in ScoreComponents(parsed) \ pos :
                     OverallScore(Without(parsed, s)) = score.n

C6_Witness ==
    \E t \in DOMAIN view :
        /\ view[t].kind = "dict"
        /\ ScoreOf(t).n = 400
        /\ \E s \in ScoreComponents(Loaded(t)) : Member(Loaded(t), s) = JInt(0)

\* the members the claim collects: numbers only
NumbersOnly(parsed) ==
    {s \in Slots :
        /\ s[1] \in DOMAIN parsed.f
        /\ parsed.f[s[1]].t = "map"
        /\ s[2] \in DOMAIN parsed.f[s[1]].f
        /\ IsScoreKey(s[2])
        /\ Member(parsed, s).t \in {"int", "float"}}

\* C7: the score is computed from exactly the numeric values directly under a
\* key ending in level, rating or score inside a top-level mapping; a string,
\* boolean, null or nested mapping there contributes nothing.
C7_OnlyNumbersCollected ==
    \A t \in DOMAIN view :
        view[t].kind = "dict" =>
            LET parsed == Loaded(t)
                pos == {s \in NumbersOnly(parsed) : Eighths(Member(parsed, s)) > 0}
            IN ScoreOf(t).n =
                  IF pos = {} THEN 0
                  ELSE PyRound(100 * SumEighths(parsed, pos), 8 * Cardinality(pos))

\* C8: rendering the results again computes the same overall_score for a
\* stored result, and rendering writes no task row and no batch row.
C8_ScoringIsReadOnlyAndRepeatable ==
    [][call'.op = "show_batch_statistics" =>
          /\ tasks' = tasks
          /\ batches' = batches
          /\ \A t \in DOMAIN view :
                view[t].kind = "dict" => view'[t] = view[t]]_vars

C8_Witness ==
    \E t \in DOMAIN view :
        /\ reads = 2
        /\ view[t].kind = "dict"
        /\ "overall_score" \in DOMAIN Loaded(t).f
        /\ Loaded(t).f["overall_score"].t = "map"
        /\ ScoreOf(t).n > 0

\* JSON proper: one document, without the literal NaN
IsValidJson(text) ==
    /\ Len(text) = 1
    /\ text[1].s = "chunk"
    /\ text[1].body.t \notin {"garbage", "nan"}

\* C9: a result whose analysis text, without its fence, is not valid JSON
\* gives the error marker and raises nothing.
C9_InvalidJsonGivesMarker ==
    \A t \in DOMAIN view :
        (reads > 0 /\ ~IsValidJson(clean_json_string(tasks[t].result[1]))) =>
            view[t] = ErrorMarker

\* ------------------------------------------------------------ import claims
\* the CSV handed to the import has no column the path reads the URL from
LacksUrlColumn ==
    /\ imp.pc # "none"
    /\ CASE imp.path \in {"dreemz_tab", "process_dreemz_csv"} ->
                "mediaSharePath" \notin imp.columns
         [] imp.path = "generic_tab" -> "video_url" \notin imp.columns
         [] imp.path = "process_csv_uploads" -> imp.columns \cap UrlColumns = {}

NetworkCalls ==
    {"requests.head", "requests.get", "upload_to_gemini", "upload_thumbnail",
     "videos.insert"}

\* C10: on every import path, a CSV without the URL column the path needs is
\* turned away whole: for no row is a URL probed, a video downloaded, a file
\* uploaded to the model service or a video row inserted.
C10_MissingUrlColumnRejected ==
    LacksUrlColumn =>
        /\ videos = <<>>
        /\ \A k \in DOMAIN log : log[k][2] \notin NetworkCalls
        /\ ChecksColumns(imp.path) => imp.pc \in {"loaded", "rejected"}
        /\ imp.path = "process_dreemz_csv" => imp.pc \in {"loaded", "rows", "failed"}

C10_Witness ==
    /\ LacksUrlColumn
    /\ imp.path = "dreemz_tab"
    /\ imp.columns = GenericColumns
    /\ imp.pc = "rejected"
    /\ Len(imp.rows) = 2
    /\ imp.rows[1].url = "http://host/clip.mp4"

\* ------------------------------------------------------------ upload claims
\* C11: upload_to_gemini ends after boundedly many status polls whatever the
\* remote file does, also when it stays neither ready nor failed: the
\* submitted upload comes to an end.
C11_UploadTerminates == <>(up.pc \in Ended)

\* the calls that make or store a thumbnail
ThumbnailCalls == {"generate_thumbnail", "upload_thumbnail"}

\* C12: on every import path, when the group is red no thumbnail is made or
\* uploaded, and every stored video row is red and has no thumbnail path.
C12_RedGroupHasNoThumbnail ==
    (imp.pc # "none" /\ imp.is_red) =>
        /\ \A k \in DOMAIN log : log[k][2] \notin ThumbnailCalls
        /\ \A v \in DOMAIN videos :
              videos[v].is_red /\ videos[v].thumbnail_path = Null

\* what follows a successful probe of a URL
AfterProbe == {"requests.get", "upload_to_gemini", "videos.insert"}

\* C13: on every import path a URL is downloaded only after its probe
\* answered with a video content type; a URL whose probe failed or answered
\* otherwise is not downloaded, not uploaded and gets no video row.
C13_DownloadOnlyAfterProbe ==
    [][imp.pc = "rows" =>
         \A o \in Outcomes :
            LET e == RowEffect(imp.path, imp.rows[imp.i], imp.columns,
                               imp.is_red, o, imp.i)
            IN (/\ log' = log \o [k \in 1..Len(e.calls) |-> <<imp.i, e.calls[k]>>]
                /\ videos' = videos \o e.inserted
                /\ \E k \in DOMAIN e.calls : e.calls[k] \in AfterProbe)
               => /\ e.calls[1] = "requests.head"
                  /\ o.head = "video/mp4"]_vars

\* ------------------------------------------------------------ more batch claims
\* the rows of tasks added by the create_analysis_batch call just made
Created == (call.pre_tasks + 1)..Len(tasks)

\* C14: when some task inserts of a create_analysis_batch call fail, every
\* other pair still gets its pending row, the batch row stays, its id is
\* returned and |V| x |P| minus the failed inserts rows are created; when the
\* batch insert fails no row is created and None is returned.
C14_PartialCreateKeepsTheRest ==
    call.op = "create" =>
        IF call.ok
        THEN /\ call.ret = Len(batches)
             /\ Len(batches) = call.pre_batches + 1
             /\ Cardinality(Created) = call.nv * call.np - Cardinality(call.failed)
             /\ \A v \in 1..call.nv, p \in 1..call.np :
                   Cardinality({t \in Created :
                                  /\ tasks[t].batch_id = call.ret
                                  /\ tasks[t].video_id = v
                                  /\ tasks[t].prompt_id = p
                                  /\ tasks[t].status = "pending"})
                     = IF <<v, p>> \in call.failed THEN 0 ELSE 1
        ELSE /\ call.ret = NoneId
             /\ Len(batches) = call.pre_batches
             /\ Created = {}

C14_Witness ==
    /\ call.op = "create" /\ call.ok
    /\ call.nv = 2 /\ call.np = 2
    /\ call.failed = {<<1, 2>>}
    /\ Cardinality(Created) = 3

\* C15: a process_batch_tasks run invokes the model on the tasks in the order
\* of its pending-task query, one at a time: a task is invoked only once the
\* task before it has been written completed or failed.
C15_OneAtATimeInOrder ==
    \A r \in SingleRunner :
        LET trace == run[r].trace
        IN /\ Len(trace) <= Len(run[r].queue)
           /\ \A k \in DOMAIN trace : trace[k] = run[r].queue[k]
           /\ \A k \in DOMAIN trace :
                 k < Len(trace) => tasks[trace[k]].status \in {"completed", "failed"}
           /\ run[r].pc # "idle" => Len(trace) \in {run[r].index - 1, run[r].index}

C15_Witness ==
    \E r \in SingleRunner :
        /\ run[r].pc = "update_task"
        /\ Len(run[r].trace) = 3
        /\ tasks[run[r].trace[1]].status = "failed"
        /\ tasks[run[r].trace[2]].status = "completed"

\* ------------------------------------------------------------ embedding claims
\* the row had a summary and no embedding when the pass started
WasMissing(id) ==
    emb.before[id].summary # Null /\ emb.before[id].summary_embedding = Null

\* C16: when generate_embeddings_for_all returns, every task that had a
\* summary and no embedding has one stored and was sent to the embedding API
\* exactly once, each API call carried 1 to 96 texts, and every other task is
\* as it was; it returns False, having made no call, when no task was missing
\* an embedding.
C16_EveryMissingEmbeddingStoredOnce ==
    emb.pc = "returned" =>
        /\ emb.ret = (\E id \in DOMAIN emb.before : WasMissing(id))
        /\ ~emb.ret => emb.calls = <<>>
        /\ \A c \in DOMAIN emb.calls : emb.calls[c] \in 1..96
        /\ \A id \in DOMAIN emb.before :
              IF WasMissing(id)
              THEN emb.rows[id].summary_embedding # Null /\ emb.sent[id] = 1
              ELSE emb.rows[id] = emb.before[id] /\ emb.sent[id] = 0

C16_Witness ==
    /\ emb.pc = "returned" /\ emb.ret
    /\ emb.calls = <<96, 1>>
    /\ \E id \in DOMAIN emb.before : emb.before[id].summary_embedding = "old"
    /\ \E id \in DOMAIN emb.before : emb.before[id].summary = Null

\* ------------------------------------------------------------ form claims
\* what was typed into the form does not pass its validation
InvalidInput ==
    CASE up.form \in {"add_prompt", "edit_prompt"} ->
            up.fields[1] = "" \/ up.fields[2] = ""
      [] up.form = "add_group" -> up.fields[1] = ""
      [] up.form = "signup" -> up.fields[1] # up.fields[2]
      [] up.form = "file" -> up.metadata = "not_json"
      [] up.form = "url" ->
            up.url # "" /\ (up.metadata = "not_json" \/ ~HasSchemeAndNetloc(up.url))
      [] OTHER -> FALSE

Submitted == up.pc \notin {"none", "form"}

\* the reads by which a page lists what exists, submission or not
PageReads == {"get_prompts", "get_video_groups"}

\* C17 as stated: a submission that fails validation makes no call at all to
\* the storage backend, the authentication service, the model service or
\* the network.
C17_InvalidInputMakesNoCall ==
    (Submitted /\ InvalidInput) => log = <<>>

\* C17: a submission that fails validation is turned away and causes no
\* call: the only calls of that page run are the page's own listing reads.
C17_InvalidInputCausesNoCall ==
    (Submitted /\ InvalidInput) =>
        /\ up.pc \in {"rejected", "invalid_url"}
        /\ \A k \in DOMAIN log : log[k][2] \in PageReads

C17_Witness ==
    /\ Submitted /\ InvalidInput
    /\ up.form = "edit_prompt"
    /\ up.fields = <<"abc", "">>
    /\ Len(log) = 1

\* ------------------------------------------------------------ more import claims
\* the import reads a generic sheet
GenericImport ==
    /\ imp.pc # "none"
    /\ imp.columns = GenericColumns
    /\ imp.path \in {"generic_tab", "process_csv_uploads"}

RowCalls(i) == {log[k][2] : k \in {x \in DOMAIN log : log[x][1] = i}}

\* C18: in the generic CSV import a row whose metadata cell is not valid
\* JSON is skipped, with no download, no upload and no video row for it,
\* while every other row is still processed.
C18_BadMetadataRowSkipped ==
    GenericImport =>
        \A i \in DOMAIN imp.rows :
            IF imp.rows[i].metadata = "not_json"
            THEN RowCalls(i) \cap {"requests.get", "upload_to_gemini",
                                   "upload_thumbnail", "videos.insert"} = {}
            ELSE (imp.pc = "done" /\ HasSchemeAndNetloc(imp.rows[i].url))
                    => "requests.head" \in RowCalls(i)

\* ------------------------------------------------------------ batch row claims
\* C19: a batch row is created with total_videos = |V|, and afterwards no
\* step changes its total_videos, model_name or owner, whatever the number
\* of its task rows is.
C19_BatchIdentityFixed ==
    [][/\ \A b \in DOMAIN batches :
             /\ b \in DOMAIN batches'
             /\ batches'[b].total_videos = batches[b].total_videos
             /\ batches'[b].model_name = batches[b].model_name
             /\ batches'[b].created_by = batches[b].created_by
       /\ \A b \in DOMAIN batches' \ DOMAIN batches :
             batches'[b].total_videos = call'.nv]_vars

C19_Witness ==
    \E b \in DOMAIN batches :
        /\ batches[b].status = "completed"
        /\ batches[b].progress = 2
        /\ batches[b].total_videos = 1
        /\ Cardinality(TasksOf(b)) = 2

TaskKey(t) == <<tasks[t].batch_id, tasks[t].video_id, tasks[t].prompt_id>>

\* C20: no two task rows share (batch_id, video_id, prompt_id), and the rows
\* a create_analysis_batch call adds carry a batch id no earlier row has.
C20_TaskKeysUnique ==
    /\ \A t, u \in DOMAIN tasks : TaskKey(t) = TaskKey(u) => t = u
    /\ (call.op = "create" /\ call.ok) =>
          /\ \A t \in Created : tasks[t].batch_id = call.ret
          /\ \A t \in 1..call.pre_tasks : tasks[t].batch_id # call.ret

C20_Witness ==
    /\ call.op = "create" /\ call.ok
    /\ call.pre_tasks = 4
    /\ Cardinality(Created) = 4
    /\ call.ret = 2

\* ------------------------------------------------------------ two-session claims
\* C21: with two runs on one batch nothing guards the writes: every batch
\* write stores the writer's own count and the status computed from it,
\* whatever the row held, so the same task is invoked by both runs and a
\* completed batch is written back to processing with a smaller progress.
C21_WritesAreUnguarded ==
    [][(call'.op = "update_batch" /\ call'.ok) =>
          LET r == call'.r
              b == call'.batch
          IN /\ batches'[b].progress = run[r].tasks_completed
             /\ batches'[b].status =
                   BatchStatus(run[r].tasks_completed, run[r].total_tasks)
             /\ tasks' = tasks]_vars

\* no write raised; run 1 went through both tasks and wrote the batch
\* completed with progress 2; run 2 had read the same tasks as pending,
\* invoked the first one too, and has just written progress 1
C21_Witness ==
    /\ faults = 0
    /\ run[1].pc = "idle" /\ run[1].ended = "finished"
    /\ run[1].total_tasks = 2 /\ run[1].tasks_completed = 2
    /\ call.op = "update_batch" /\ call.ok /\ call.r = 2 /\ call.batch = 1
    /\ run[2].queue = run[1].queue
    /\ run[2].tasks_completed = 1
    /\ \E t \in DOMAIN tasks :
          /\ \E k \in DOMAIN run[1].trace : run[1].trace[k] = t
          /\ \E k \in DOMAIN run[2].trace : run[2].trace[k] = t
    /\ batches[1].status = "processing"
    /\ batches[1].progress = 1

\* ------------------------------------------------------------ persistence claims
\* the import paths that go through one of the two process_video_upload
UploadPaths == {"dreemz_tab", "generic_tab", "process_dreemz_csv"}

Has(calls, c) == \E k \in DOMAIN calls : calls[k] = c

\* C22: in both process_video_upload implementations a video row is stored
\* exactly when the upload to the model service succeeded: none (and no
\* thumbnail upload) when it failed, and one with a null thumbnail path when
\* it succeeded and no thumbnail could be made.
C22_RowStoredIffUploaded ==
    [][(imp.pc = "rows" /\ imp.path \in UploadPaths) =>
         \A o \in Outcomes :
            LET e == RowEffect(imp.path, imp.rows[imp.i], imp.columns,
                               imp.is_red, o, imp.i)
            IN (/\ log' = log \o [k \in 1..Len(e.calls) |-> <<imp.i, e.calls[k]>>]
                /\ videos' = videos \o e.inserted
                /\ Has(e.calls, "upload_to_gemini"))
               => /\ o.gemini <=> Len(e.inserted) = 1
                  /\ ~o.gemini => ~Has(e.calls, "upload_thumbnail")
                  /\ \A v \in DOMAIN e.inserted :
                        /\ e.inserted[v].gemini_file_id # NoneId
                        /\ ~o.thumb => e.inserted[v].thumbnail_path = Null]_vars

\* ------------------------------------------------------------ search claims
Distinct(seq) == \A i, j \in DOMAIN seq : seq[i] = seq[j] => i = j

\* C23: K <= N; the candidates handed to the reranker are at most N stored
\* tasks with an embedding, no task twice, also when fewer than N embeddings
\* are stored; the results shown are at most K, each one of the candidates.
C23_CandidatesDistinct ==
    search.pc \in {"rerank", "shown"} =>
        /\ search.k <= search.n
        /\ Len(search.candidates) <= search.n
        /\ \A j \in DOMAIN search.candidates :
              /\ search.candidates[j] \in DOMAIN search.rows
              /\ search.rows[search.candidates[j]].summary_embedding # Null
        /\ Distinct(search.candidates)
        /\ Len(search.shown) <= search.k
        /\ \A j \in DOMAIN search.shown :
              \E c \in DOMAIN search.candidates :
                  search.shown[j] = search.candidates[c]

\* ------------------------------------------------------------ progress claims
CompletedOf(batch_id) == {t \in TasksOf(batch_id) : tasks[t].status = "completed"}

\* C24: with a single runner a batch's progress never exceeds the number of
\* its tasks whose status is completed, also when a write to the backend
\* raises.
C24_ProgressAtMostCompleted ==
    \A b \in DOMAIN batches :
        batches[b].progress <= Cardinality(CompletedOf(b))

\* ------------------------------------------------------------ parsing claims
\* C25: parse_analysis_result never raises for a stored result: {} for an
\* empty result, and for analysis text that is valid JSON of any shape a
\* mapping, which for an object contains overall_score.
C25_ParseNeverRaises ==
    /\ parse_analysis_result(NullResult) = EmptyDict
    /\ \A t \in DOMAIN view :
          reads > 0 =>
              /\ view[t] # RaisedAttributeError
              /\ IsValidJson(clean_json_string(tasks[t].result[1])) =>
                    /\ view[t].kind = "dict"
                    /\ Loaded(t).t = "map" =>
                          "overall_score" \in DOMAIN view[t].doc.f

\* ------------------------------------------------------------ later runs
\* the order pending, processing, completed
StatusRank(status) ==
    CASE status = "pending" -> 0 [] status = "processing" -> 1
      [] status = "completed" -> 2

\* C26: over any sequence of runs of one runner on a batch, also after a run
\* cut short by an error that left the loop, the batch's progress never
\* decreases and its status never moves backwards.
C26_ProgressAndStatusMonotone ==
    [][\A b \in DOMAIN batches :
          /\ batches'[b].progress >= batches[b].progress
          /\ StatusRank(batches'[b].status) >= StatusRank(batches[b].status)]_vars

\* ------------------------------------------------------------ timestamps
CompletedIffStamped ==
    \A b \in DOMAIN batches :
        batches[b].completed_at # Null <=> batches[b].status = "completed"

\* C27: a batch has a completed_at exactly when its status is completed:
\* each batch write of process_batch_tasks sets completed with a timestamp,
\* or processing with a null completed_at.
C27_CompletedAtIffCompleted ==
    /\ []CompletedIffStamped
    /\ [][(call'.op = "update_batch" /\ call'.ok) =>
            LET row == batches'[call'.batch]
            IN \/ row.status = "completed" /\ row.completed_at = Stamp
               \/ row.status = "processing" /\ row.completed_at = Null]_vars

C27_Witness ==
    /\ Len(batches) = 2
    /\ batches[1].status = "completed" /\ batches[1].completed_at = Stamp
    /\ batches[2].status = "processing" /\ batches[2].completed_at = Null
    /\ batches[2].progress = 1

\* ------------------------------------------------------------ task rows
\* C28: each task's fields agree with its status: pending has no result, no
\* error and no completed_at; completed has a result with an analysis text,
\* a completed_at and no error; failed has an error, a completed_at and no
\* result.
C28_TaskFieldsAgreeWithStatus ==
    \A t \in DOMAIN tasks :
        CASE tasks[t].status = "pending" ->
                /\ tasks[t].result = NullResult
                /\ tasks[t].error = Null
                /\ tasks[t].completed_at = Null
          [] tasks[t].status = "completed" ->
                /\ tasks[t].result # NullResult
                /\ tasks[t].error = Null
                /\ tasks[t].completed_at # Null
          [] tasks[t].status = "failed" ->
                /\ tasks[t].result = NullResult
                /\ tasks[t].error # Null
                /\ tasks[t].completed_at # Null

\* ------------------------------------------------------------ empty runs
NoPending(batch_id) == \A t \in TasksOf(batch_id) : tasks[t].status # "pending"

\* process_batch_tasks was entered
Entered == {"start", "no_pending_tasks", "batch_not_found", "api_error"}

\* C29: process_batch_tasks on a batch without a pending task, a finished
\* batch or an unknown id, writes no batch row and no task row and does not
\* invoke the model: the run is over at once.
C29_NoPendingIsNoOp ==
    [][(call'.op \in Entered /\ NoPending(call'.batch)) =>
          /\ batches' = batches
          /\ tasks' = tasks
          /\ run'[call'.r].pc = "idle"
          /\ run'[call'.r].trace = <<>>]_vars

C29_Witness ==
    /\ call.op = "no_pending_tasks"
    /\ batches[call.batch].status = "completed"
    /\ batches[call.batch].progress = 2
    /\ Cardinality(TasksOf(call.batch)) = 2

\* ------------------------------------------------------------ session claims
SessionKeys(s) == <<s.authenticated, s.user, s.session>>

AuthenticatedHasUser ==
    app.authenticated = "True" =>
        app.user \in Users /\ app.session \in Users

\* C30: authenticated is true only with a user and a session stored; a
\* failed sign-in leaves authenticated, user and session as they were; after
\* logout the session is unauthenticated with no user; and a page guarded by
\* require_auth touches the backend only in an authenticated session.
C30_SessionStateSound ==
    /\ []AuthenticatedHasUser
    /\ [][/\ app'.op = "login_failed" => SessionKeys(app') = SessionKeys(app)
          /\ app'.op = "logout" =>
                app'.authenticated # "True" /\ app'.user \notin Users
          /\ app.op = "logout" =>
                app'.op = "login" \/
                   (app'.authenticated # "True" /\ app'.user \notin Users)
          /\ (app'.op \in {"page", "stopped"}) =>
                /\ SessionKeys(app') = SessionKeys(app)
                /\ app'.backend # app.backend => app.authenticated = "True"]_vars

\* signed in, the application and a guarded page read the backend, logged
\* out, the login page shown again, and a guarded page that stopped
C30_Witness ==
    /\ app.op = "stopped"
    /\ app.authenticated = "False"
    /\ app.user = "None"
    /\ app.backend = <<"main", "create_batch">>
====
